---------------------------- MODULE Spec2Model ----------------------------
(***************************************************************************)
(* A model of Server.cpp: the single-threaded accept loop of main,         *)
(* handle_client, and the request pipeline of handle_request with the      *)
(* functions it calls.  Strings are sequences of characters and a          *)
(* character is its byte value, so that decoding, case folding and         *)
(* formatting are computed as the code computes them.                      *)
(***************************************************************************)
EXTENDS Integers, Sequences, FiniteSets

(* ------------------------------------------------------------------ *)
(* configuration and string literals of the source                     *)
(* ------------------------------------------------------------------ *)

BUFFER_SIZE == 8192

\* "MyHttpServer/1.0"
SERVER_NAME ==
    <<77, 121, 72, 116, 116, 112, 83, 101, 114, 118, 101, 114, 47, 49, 46,
    48>>

\* "\r\n"
CRLF ==
    <<13, 10>>

\* "\r\n\r\n"
CRLFCRLF ==
    <<13, 10, 13, 10>>

\* "GET"
STR_GET ==
    <<71, 69, 84>>

\* "HEAD"
STR_HEAD ==
    <<72, 69, 65, 68>>

\* "index.html"
STR_index_html ==
    <<105, 110, 100, 101, 120, 46, 104, 116, 109, 108>>

\* "text/html"
STR_text_html ==
    <<116, 101, 120, 116, 47, 104, 116, 109, 108>>

\* "application/octet-stream"
STR_octet_stream ==
    <<97, 112, 112, 108, 105, 99, 97, 116, 105, 111, 110, 47, 111, 99, 116,
    101, 116, 45, 115, 116, 114, 101, 97, 109>>

\* "OK"
STR_OK ==
    <<79, 75>>

\* "Bad Request"
STR_Bad_Request ==
    <<66, 97, 100, 32, 82, 101, 113, 117, 101, 115, 116>>

\* "Forbidden"
STR_Forbidden ==
    <<70, 111, 114, 98, 105, 100, 100, 101, 110>>

\* "Not Found"
STR_Not_Found ==
    <<78, 111, 116, 32, 70, 111, 117, 110, 100>>

\* "Method Not Allowed"
STR_Method_Not_Allowed ==
    <<77, 101, 116, 104, 111, 100, 32, 78, 111, 116, 32, 65, 108, 108, 111,
    119, 101, 100>>

\* "Internal Server Error"
STR_Internal_Server_Error ==
    <<73, 110, 116, 101, 114, 110, 97, 108, 32, 83, 101, 114, 118, 101, 114,
    32, 69, 114, 114, 111, 114>>

\* "Unknown"
STR_Unknown ==
    <<85, 110, 107, 110, 111, 119, 110>>

\* "close"
STR_close ==
    <<99, 108, 111, 115, 101>>

\* ".."
STR_dotdot ==
    <<46, 46>>

\* "//"
STR_slashslash ==
    <<47, 47>>

\* "<!DOCTYPE html><html><head><title>"
PAGE_head ==
    <<60, 33, 68, 79, 67, 84, 89, 80, 69, 32, 104, 116, 109, 108, 62, 60,
    104, 116, 109, 108, 62, 60, 104, 101, 97, 100, 62, 60, 116, 105, 116,
    108, 101, 62>>

\* "</title><style>body { font-family: Arial, sans-serif; text-align: center; padding: 50px; }h1 { color: #333; }p { color: #666; }.container { max-width: 500px; margin: 0 auto; }</style></head><body><div class='container'><h1>"
PAGE_style ==
    <<60, 47, 116, 105, 116, 108, 101, 62, 60, 115, 116, 121, 108, 101, 62,
    98, 111, 100, 121, 32, 123, 32, 102, 111, 110, 116, 45, 102, 97, 109,
    105, 108, 121, 58, 32, 65, 114, 105, 97, 108, 44, 32, 115, 97, 110, 115,
    45, 115, 101, 114, 105, 102, 59, 32, 116, 101, 120, 116, 45, 97, 108,
    105, 103, 110, 58, 32, 99, 101, 110, 116, 101, 114, 59, 32, 112, 97,
    100, 100, 105, 110, 103, 58, 32, 53, 48, 112, 120, 59, 32, 125, 104, 49,
    32, 123, 32, 99, 111, 108, 111, 114, 58, 32, 35, 51, 51, 51, 59, 32,
    125, 112, 32, 123, 32, 99, 111, 108, 111, 114, 58, 32, 35, 54, 54, 54,
    59, 32, 125, 46, 99, 111, 110, 116, 97, 105, 110, 101, 114, 32, 123, 32,
    109, 97, 120, 45, 119, 105, 100, 116, 104, 58, 32, 53, 48, 48, 112, 120,
    59, 32, 109, 97, 114, 103, 105, 110, 58, 32, 48, 32, 97, 117, 116, 111,
    59, 32, 125, 60, 47, 115, 116, 121, 108, 101, 62, 60, 47, 104, 101, 97,
    100, 62, 60, 98, 111, 100, 121, 62, 60, 100, 105, 118, 32, 99, 108, 97,
    115, 115, 61, 39, 99, 111, 110, 116, 97, 105, 110, 101, 114, 39, 62, 60,
    104, 49, 62>>

\* " - "
PAGE_dash ==
    <<32, 45, 32>>

\* "</h1><p>Custom HTTP Server</p></div></body></html>"
PAGE_tail ==
    <<60, 47, 104, 49, 62, 60, 112, 62, 67, 117, 115, 116, 111, 109, 32, 72,
    84, 84, 80, 32, 83, 101, 114, 118, 101, 114, 60, 47, 112, 62, 60, 47,
    100, 105, 118, 62, 60, 47, 98, 111, 100, 121, 62, 60, 47, 104, 116, 109,
    108, 62>>


\* the fixed extension -> content type table, as <<extension, content type>> pairs
mime_types ==
    {
     \* .html -> text/html; charset=utf-8
     <<<<46, 104, 116, 109, 108>>,
       <<116, 101, 120, 116, 47, 104, 116, 109, 108, 59, 32, 99, 104, 97,
        114, 115, 101, 116, 61, 117, 116, 102, 45, 56>>>>,
     \* .htm -> text/html; charset=utf-8
     <<<<46, 104, 116, 109>>,
       <<116, 101, 120, 116, 47, 104, 116, 109, 108, 59, 32, 99, 104, 97,
        114, 115, 101, 116, 61, 117, 116, 102, 45, 56>>>>,
     \* .css -> text/css; charset=utf-8
     <<<<46, 99, 115, 115>>,
       <<116, 101, 120, 116, 47, 99, 115, 115, 59, 32, 99, 104, 97, 114,
        115, 101, 116, 61, 117, 116, 102, 45, 56>>>>,
     \* .js -> application/javascript; charset=utf-8
     <<<<46, 106, 115>>,
       <<97, 112, 112, 108, 105, 99, 97, 116, 105, 111, 110, 47, 106, 97,
        118, 97, 115, 99, 114, 105, 112, 116, 59, 32, 99, 104, 97, 114,
        115, 101, 116, 61, 117, 116, 102, 45, 56>>>>,
     \* .json -> application/json; charset=utf-8
     <<<<46, 106, 115, 111, 110>>,
       <<97, 112, 112, 108, 105, 99, 97, 116, 105, 111, 110, 47, 106,
        115, 111, 110, 59, 32, 99, 104, 97, 114, 115, 101, 116, 61, 117,
        116, 102, 45, 56>>>>,
     \* .png -> image/png
     <<<<46, 112, 110, 103>>,
       <<105, 109, 97, 103, 101, 47, 112, 110, 103>>>>,
     \* .jpg -> image/jpeg
     <<<<46, 106, 112, 103>>,
       <<105, 109, 97, 103, 101, 47, 106, 112, 101, 103>>>>,
     \* .jpeg -> image/jpeg
     <<<<46, 106, 112, 101, 103>>,
       <<105, 109, 97, 103, 101, 47, 106, 112, 101, 103>>>>,
     \* .gif -> image/gif
     <<<<46, 103, 105, 102>>,
       <<105, 109, 97, 103, 101, 47, 103, 105, 102>>>>,
     \* .ico -> image/x-icon
     <<<<46, 105, 99, 111>>,
       <<105, 109, 97, 103, 101, 47, 120, 45, 105, 99, 111, 110>>>>,
     \* .txt -> text/plain; charset=utf-8
     <<<<46, 116, 120, 116>>,
       <<116, 101, 120, 116, 47, 112, 108, 97, 105, 110, 59, 32, 99, 104,
        97, 114, 115, 101, 116, 61, 117, 116, 102, 45, 56>>>>,
     \* .svg -> image/svg+xml
     <<<<46, 115, 118, 103>>,
       <<105, 109, 97, 103, 101, 47, 115, 118, 103, 43, 120, 109, 108>>>>
    }

(* ------------------------------------------------------------------ *)
(* std::string operations, with the 0-based positions of the source   *)
(* ------------------------------------------------------------------ *)

\* std::string::npos, the "not found" result of the find family
npos == -1

MinOf(S) == CHOOSE x \in S : \A y \in S : x <= y

MaxOf(S) == CHOOSE x \in S : \A y \in S : y <= x

\* s.size() / s.length()
size(s) == Len(s)

\* s[i]
at(s, i) == s[i + 1]

\* s.substr(pos, n): at most n characters from position pos
substr(s, pos, n) == SubSeq(s, pos + 1, IF pos + n < Len(s) THEN pos + n ELSE Len(s))

\* s.substr(pos): everything from position pos
substr_from(s, pos) == SubSeq(s, pos + 1, Len(s))

\* s.find(pat, from): position of the first occurrence at or after from
find(s, pat, from) ==
    LET hits == {i \in from .. (Len(s) - Len(pat)) :
                    \A k \in 1 .. Len(pat) : s[i + k] = pat[k]}
    IN  IF hits = {} THEN npos ELSE MinOf(hits)

\* s.find(c, from) for a single character c
find_char(s, c, from) == find(s, <<c>>, from)

\* s.find_last_of(c) for a single character c
find_last_of(s, c) ==
    LET hits == {i \in 0 .. (Len(s) - 1) : s[i + 1] = c}
    IN  IF hits = {} THEN npos ELSE MaxOf(hits)

\* string(const char*): the characters before the first NUL byte
c_str(bytes) ==
    LET nul == find_char(bytes, 0, 0)
    IN  IF nul = npos THEN bytes ELSE substr(bytes, 0, nul)

\* operator<< of an int on a decimal stream, and to_string(int), for n >= 0
RECURSIVE format_int(_)
format_int(n) ==
    IF n < 10 THEN <<48 + n>> ELSE format_int(n \div 10) \o <<48 + (n % 10)>>

\* the values a char can take
Char == 0 .. 255

(* ------------------------------------------------------------------ *)
(* parse_request_line                                                  *)
(* ------------------------------------------------------------------ *)

\* the result of a failed parse: method and path are left as constructed (empty)
ParseFailed == [ok |-> FALSE, method |-> <<>>, path |-> <<>>]

\* a parse taking the last space of the line (rfind) as the second one
parse_request_line_last_space(line) ==
    LET space1 == find_char(line, 32, 0) IN
    IF space1 = npos THEN ParseFailed
    ELSE LET later == {i \in (space1 + 1) .. (Len(line) - 1) : at(line, i) = 32} IN
         IF later = {} THEN ParseFailed
         ELSE [ok     |-> TRUE,
               method |-> substr(line, 0, space1),
               path   |-> substr(line, space1 + 1, MaxOf(later) - space1 - 1)]

\* a parse that fails when the method or the path would be empty
parse_request_line_non_empty(line) ==
    LET space1 == find_char(line, 32, 0) IN
    IF space1 = npos \/ space1 = 0 THEN ParseFailed
    ELSE LET space2 == find_char(line, 32, space1 + 1) IN
         IF space2 = npos \/ space2 = space1 + 1 THEN ParseFailed
         ELSE [ok     |-> TRUE,
               method |-> substr(line, 0, space1),
               path   |-> substr(line, space1 + 1, space2 - space1 - 1)]

parse_request_line(line) ==
    LET space1 == find_char(line, 32, 0) IN
    IF space1 = npos THEN ParseFailed
    ELSE LET space2 == find_char(line, 32, space1 + 1) IN
         IF space2 = npos THEN ParseFailed
         ELSE [ok     |-> TRUE,
               method |-> substr(line, 0, space1),
               path   |-> substr(line, space1 + 1, space2 - space1 - 1)]

(* ------------------------------------------------------------------ *)
(* url_decode                                                          *)
(* ------------------------------------------------------------------ *)

\* isspace in the classic locale: the characters a formatted read skips
IsSpace(c) == c \in {9, 10, 11, 12, 13, 32}

IsHexDigit(c) == c \in (48 .. 57) \cup (65 .. 70) \cup (97 .. 102)

HexDigitValue(c) ==
    IF c \in 48 .. 57 THEN c - 48
    ELSE IF c \in 65 .. 70 THEN c - 55
    ELSE c - 87

\* static_cast<char>(v) of an int, as the byte it stores
to_char(v) == v % 256

\* The characters that `ss << hex << hex_str; ss >> hex_value;
\* static_cast<char>(hex_value)` can produce for a two-character hex_str.
\* The formatted read skips leading white space, takes an optional sign, an
\* optional 0x prefix and then hex digits; when it extracts no digit it stores
\* 0.  When both characters are white space the read fails before anything is
\* stored and hex_value, which has no initializer, keeps an indeterminate value.
hex_chars(hex_str) ==
    LET a == hex_str[1]
        b == hex_str[2]
    IN  IF IsSpace(a) /\ IsSpace(b) THEN Char
        ELSE IF IsSpace(a) THEN
            {IF IsHexDigit(b) THEN HexDigitValue(b) ELSE 0}
        ELSE IF a = 43 THEN
            {IF IsHexDigit(b) THEN HexDigitValue(b) ELSE 0}
        ELSE IF a = 45 THEN
            {IF IsHexDigit(b) THEN to_char(256 - HexDigitValue(b)) ELSE 0}
        ELSE IF IsHexDigit(a) /\ IsHexDigit(b) THEN
            {to_char(16 * HexDigitValue(a) + HexDigitValue(b))}
        ELSE IF IsHexDigit(a) THEN
            {HexDigitValue(a)}
        ELSE {0}

\* the loop of url_decode from position i on: the set of strings it can append
RECURSIVE url_decode_from(_, _)
url_decode_from(encoded, i) ==
    IF ~(i < size(encoded)) THEN {<<>>}
    ELSE IF at(encoded, i) = 37 /\ i + 2 < size(encoded) THEN
        {<<c>> \o rest : c \in hex_chars(substr(encoded, i + 1, 2)),
                         rest \in url_decode_from(encoded, i + 3)}
    ELSE IF at(encoded, i) = 43 THEN
        {<<32>> \o rest : rest \in url_decode_from(encoded, i + 1)}
    ELSE
        {<<at(encoded, i)>> \o rest : rest \in url_decode_from(encoded, i + 1)}

\* the loop without its `i += 2`: the two hex digits are read again
RECURSIVE url_decode_from_no_skip(_, _)
url_decode_from_no_skip(encoded, i) ==
    IF ~(i < size(encoded)) THEN {<<>>}
    ELSE IF at(encoded, i) = 37 /\ i + 2 < size(encoded) THEN
        {<<c>> \o rest : c \in hex_chars(substr(encoded, i + 1, 2)),
                         rest \in url_decode_from_no_skip(encoded, i + 1)}
    ELSE IF at(encoded, i) = 43 THEN
        {<<32>> \o rest : rest \in url_decode_from_no_skip(encoded, i + 1)}
    ELSE
        {<<at(encoded, i)>> \o rest : rest \in url_decode_from_no_skip(encoded, i + 1)}

\* url_decode with that loop
url_decode_no_skip(encoded) == url_decode_from_no_skip(encoded, 0)

\* the set of results of url_decode(encoded); a singleton unless the string
\* holds a '%' followed by two white-space characters
url_decode(encoded) == url_decode_from(encoded, 0)

(* ------------------------------------------------------------------ *)
(* is_safe_path                                                        *)
(* ------------------------------------------------------------------ *)

\* is_safe_path without its backslash test
is_safe_path_no_backslash(path) ==
    IF find(path, STR_dotdot, 0) # npos THEN FALSE
    ELSE IF find(path, STR_slashslash, 0) # npos THEN FALSE
    ELSE TRUE

is_safe_path(path) ==
    IF find(path, STR_dotdot, 0) # npos THEN FALSE
    ELSE IF find(path, STR_slashslash, 0) # npos THEN FALSE
    ELSE IF find_char(path, 92, 0) # npos THEN FALSE
    ELSE TRUE

(* ------------------------------------------------------------------ *)
(* get_mime_type                                                       *)
(* ------------------------------------------------------------------ *)

\* ::tolower(c) of a char, in the "C" locale the program never leaves.  A char
\* above 127 reaches tolower as a negative int where char is signed, outside
\* the domain the C standard gives the function; the C libraries the program
\* builds against (glibc's table spans -128 .. 255, musl, the BSDs and the
\* Windows runtimes test the range 'A' .. 'Z') all return such an argument
\* unchanged, so that is the one outcome a build produces.
tolower(c) ==
    IF c \in 65 .. 90 THEN {c + 32}
    ELSE {c}

\* transform(..., ::tolower): the set of strings ext_lower can be
RECURSIVE to_lower_str(_)
to_lower_str(s) ==
    IF s = <<>> THEN {<<>>}
    ELSE {<<c>> \o rest : c \in tolower(Head(s)), rest \in to_lower_str(Tail(s))}

\* mime_types.find(key): the mapped value, or "application/octet-stream" at end()
mime_lookup(key) ==
    IF \E e \in mime_types : e[1] = key
    THEN (CHOOSE e \in mime_types : e[1] = key)[2]
    ELSE STR_octet_stream

\* get_mime_type looking up the extension as written, not lower-cased
get_mime_type_case_sensitive(filename) ==
    LET dot_pos == find_last_of(filename, 46) IN
    IF dot_pos # npos
    THEN {mime_lookup(substr_from(filename, dot_pos))}
    ELSE {STR_octet_stream}

\* the set of results of get_mime_type(filename)
get_mime_type(filename) ==
    LET dot_pos == find_last_of(filename, 46) IN
    IF dot_pos # npos
    THEN {mime_lookup(ext_lower) : ext_lower \in to_lower_str(substr_from(filename, dot_pos))}
    ELSE {STR_octet_stream}

(* ------------------------------------------------------------------ *)
(* the filesystem and read_file                                        *)
(* ------------------------------------------------------------------ *)

\* what the filesystem holds under a name
NoFile == [kind |-> "missing", data |-> <<>>]

\* an entry of the filesystem fs, a function on its named files; every other
\* name is missing
file_at(fs, name) == IF name \in DOMAIN fs THEN fs[name] ELSE NoFile

\* read_file(filename): the stream is opened on filename.c_str(); an open
\* failure, a size <= 0 and a failed read all give the empty string
read_file(fs, filename) ==
    LET file == file_at(fs, c_str(filename)) IN
    IF file.kind \in {"missing", "noperm"} THEN <<>>
    ELSE IF Len(file.data) <= 0 THEN <<>>
    ELSE IF file.kind = "ioerror" THEN <<>>
    ELSE file.data

(* ------------------------------------------------------------------ *)
(* response framing                                                    *)
(* ------------------------------------------------------------------ *)

\* the status_texts table with the 405 entry forgotten
status_texts_no_405 ==
    {<<200, STR_OK>>, <<400, STR_Bad_Request>>, <<403, STR_Forbidden>>,
     <<404, STR_Not_Found>>, <<500, STR_Internal_Server_Error>>}

\* the status_texts table of send_response, as <<code, text>> pairs
status_texts ==
    {<<200, STR_OK>>, <<400, STR_Bad_Request>>, <<403, STR_Forbidden>>,
     <<404, STR_Not_Found>>, <<405, STR_Method_Not_Allowed>>,
     <<500, STR_Internal_Server_Error>>}

\* the header block, field by field (the Date field is the current time and
\* is left out)
build_response_headers(status_code, status_text, content_type, content_length) ==
    [status_code    |-> status_code,
     status_text    |-> status_text,
     server         |-> SERVER_NAME,
     content_type   |-> content_type,
     content_length |-> content_length,
     connection     |-> STR_close]

\* send_response sending strlen(body.c_str()) body bytes instead of body.length()
send_response_strlen(status_code, content_type, body) ==
    LET status_text ==
            IF \E e \in status_texts : e[1] = status_code
            THEN (CHOOSE e \in status_texts : e[1] = status_code)[2]
            ELSE STR_Unknown
        headers == build_response_headers(status_code, status_text,
                                          content_type, size(body))
    IN  [headers |-> headers,
         body    |-> IF body # <<>> THEN c_str(body) ELSE <<>>]

\* what send_response puts on the socket: the headers, then the body bytes
\* of the second send, which is skipped for an empty body
send_response(status_code, content_type, body) ==
    LET status_text ==
            IF \E e \in status_texts : e[1] = status_code
            THEN (CHOOSE e \in status_texts : e[1] = status_code)[2]
            ELSE STR_Unknown
        headers == build_response_headers(status_code, status_text,
                                          content_type, size(body))
    IN  [headers |-> headers,
         body    |-> IF body # <<>> THEN body ELSE <<>>]

generate_error_page(status_code, message) ==
    PAGE_head \o format_int(status_code) \o <<32>> \o message \o PAGE_style
        \o format_int(status_code) \o PAGE_dash \o message \o PAGE_tail

\* "POST"
M_POST ==
    <<80, 79, 83, 84>>

\* "get"
M_get ==
    <<103, 101, 116>>

\* "/"
T_root ==
    <<47>>

\* "/a.txt"
T_a_txt ==
    <<47, 97, 46, 116, 120, 116>>

\* "/a.TXT"
T_a_TXT ==
    <<47, 97, 46, 84, 88, 84>>

\* "/index.html"
T_index ==
    <<47, 105, 110, 100, 101, 120, 46, 104, 116, 109, 108>>

\* "/missing.txt"
T_missing ==
    <<47, 109, 105, 115, 115, 105, 110, 103, 46, 116, 120, 116>>

\* "/x"
T_x ==
    <<47, 120>>

\* "a.txt"
T_noslash ==
    <<97, 46, 116, 120, 116>>

\* "/../secret"
T_dotdot ==
    <<47, 46, 46, 47, 115, 101, 99, 114, 101, 116>>

\* "/a//b"
T_slashslash ==
    <<47, 97, 47, 47, 98>>

\* "/a\\b"
T_backslash ==
    <<47, 97, 92, 98>>

\* "/%2e%2e/secret"
T_enc_dotdot ==
    <<47, 37, 50, 101, 37, 50, 101, 47, 115, 101, 99, 114, 101, 116>>

\* "/a%2f%2fb"
T_enc_slash ==
    <<47, 97, 37, 50, 102, 37, 50, 102, 98>>

\* "/a%5cb"
T_enc_backslash ==
    <<47, 97, 37, 53, 99, 98>>

\* "/a.txt%00.html"
T_enc_nul ==
    <<47, 97, 46, 116, 120, 116, 37, 48, 48, 46, 104, 116, 109, 108>>

\* "/a+b"
T_plus ==
    <<47, 97, 43, 98>>

\* "/a.txt%4"
T_pct_tail ==
    <<47, 97, 46, 116, 120, 116, 37, 52>>

\* "/%zz.txt"
T_pct_bad ==
    <<47, 37, 122, 122, 46, 116, 120, 116>>

\* "/a%<TAB><TAB>"
T_pct_ws ==
    <<47, 97, 37, 9, 9>>

\* "/a%-1"
T_pct_neg ==
    <<47, 97, 37, 45, 49>>

\* "/\ta"
T_tab ==
    <<47, 9, 97>>

\* "HTTP/1.1"
V_http11 ==
    <<72, 84, 84, 80, 47, 49, 46, 49>>

\* "Host: x"
H_host ==
    <<72, 111, 115, 116, 58, 32, 120>>

\* "X-Pad: "
H_pad ==
    <<88, 45, 80, 97, 100, 58, 32>>

\* "name=v"
B_body ==
    <<110, 97, 109, 101, 61, 118>>

\* "a.txt"
F_a_txt ==
    <<97, 46, 116, 120, 116>>

\* "../secret"
F_secret ==
    <<46, 46, 47, 115, 101, 99, 114, 101, 116>>

\* "hello"
D_hello ==
    <<104, 101, 108, 108, 111>>

\* "<p>hi</p>"
D_page ==
    <<60, 112, 62, 104, 105, 60, 47, 112, 62>>

\* "a NUL byte and the byte 0xFF"
D_bin ==
    <<0, 255>>

(* ------------------------------------------------------------------ *)
(* the inputs: requests and filesystems                                *)
(* ------------------------------------------------------------------ *)

\* the number of connections the model accepts
MaxConns == 2

Methods == {STR_GET, STR_HEAD, M_POST, M_get, <<>>}

Targets ==
    {<<>>, T_root, T_a_txt, T_a_TXT, T_index, T_missing, T_x, T_noslash,
     T_dotdot, T_slashslash, T_backslash, T_enc_dotdot, T_enc_slash,
     T_enc_backslash, T_enc_nul, T_plus, T_pct_tail, T_pct_bad, T_pct_neg,
     T_tab}

\* METHOD SP TARGET SP VERSION
RequestLine(m, t) == m \o <<32>> \o t \o <<32>> \o V_http11

\* the shapes of a client's bytes around a method and a target
RequestForms(m, t) ==
    {RequestLine(m, t) \o CRLF \o H_host \o CRLFCRLF,
     RequestLine(m, t) \o CRLF \o H_host \o CRLFCRLF \o B_body,
     RequestLine(m, t) \o CRLFCRLF,
     RequestLine(m, t) \o CRLF \o H_host \o CRLF,
     RequestLine(m, t),
     m \o <<32>> \o t \o CRLF \o H_host \o CRLFCRLF}

\* by how many bytes a padded request ends past the BUFFER_SIZE - 1 bytes of
\* the single read: 0 fits exactly, 1 loses the last byte of the terminator
PadOverflows == {0, 1, 4, 100}

\* a request padded by a long header so that it is BUFFER_SIZE - 1 + over bytes
PaddedRequest(t, over) ==
    LET start == RequestLine(STR_GET, t) \o CRLF \o H_pad
        fill == BUFFER_SIZE - 1 + over - Len(start) - Len(CRLFCRLF)
    IN  start \o [i \in 1 .. fill |-> 97] \o CRLFCRLF

Requests ==
    UNION {RequestForms(m, t) : m \in Methods, t \in Targets}
    \cup RequestForms(STR_GET, T_pct_ws)
    \cup {PaddedRequest(T_a_txt, over) : over \in PadOverflows}
    \cup {<<0>> \o RequestLine(STR_GET, T_a_txt) \o CRLFCRLF,
          CRLFCRLF, CRLF, <<32, 32>> \o CRLF \o H_host \o CRLFCRLF}

\* the files the filesystems of the model name
FileNames == {STR_index_html, F_a_txt, F_secret}

\* what a name can hold: nothing, a file that cannot be opened, one whose
\* read fails, an empty file, a file with contents
FileStates(name) ==
    LET data == IF name = STR_index_html THEN D_page
                ELSE IF name = F_a_txt THEN D_hello
                ELSE D_bin
    IN  IF name = F_a_txt
        THEN {NoFile,
              [kind |-> "noperm", data |-> data],
              [kind |-> "ioerror", data |-> data],
              [kind |-> "regular", data |-> <<>>],
              [kind |-> "regular", data |-> data]}
        ELSE {NoFile, [kind |-> "regular", data |-> data]}

FileSystems == {f \in [FileNames -> UNION {FileStates(n) : n \in FileNames}] :
                   \A n \in FileNames : f[n] \in FileStates(n)}

(* ------------------------------------------------------------------ *)
(* handle_request                                                      *)
(* ------------------------------------------------------------------ *)

\* an error branch copied from the first one with its page left at 400
error_branch_page_400(status_code, message) ==
    [sent    |-> <<send_response(status_code, STR_text_html,
                                 generate_error_page(400, STR_Bad_Request))>>,
     lookups |-> <<>>]

\* generate_error_page followed by send_response(..., "text/html", error_page)
\* and return: one response on the socket and no file looked up
error_branch(status_code, message) ==
    [sent    |-> <<send_response(status_code, STR_text_html,
                                 generate_error_page(status_code, message))>>,
     lookups |-> <<>>]

\* serve_file with the return of the 404 branch forgotten: the 200 response follows
serve_file_no_return(fs, filename) ==
    LET content == read_file(fs, filename) IN
    IF content = <<>>
    THEN {[sent    |-> error_branch(404, STR_Not_Found).sent
                        \o <<send_response(200, mime_type, content)>>,
           lookups |-> <<filename>>] : mime_type \in get_mime_type(filename)}
    ELSE {[sent    |-> <<send_response(200, mime_type, content)>>,
           lookups |-> <<filename>>] : mime_type \in get_mime_type(filename)}

\* serve_file with the content.empty() test forgotten
serve_file_no_empty_test(fs, filename) ==
    LET content == read_file(fs, filename) IN
    {[sent    |-> <<send_response(200, mime_type, content)>>,
      lookups |-> <<filename>>] : mime_type \in get_mime_type(filename)}

\* "Read file" to the end of handle_request: the outcomes for a resolved filename
serve_file(fs, filename) ==
    LET content == read_file(fs, filename) IN
    IF content = <<>>
    THEN {[error_branch(404, STR_Not_Found) EXCEPT !.lookups = <<filename>>]}
    ELSE {[sent    |-> <<send_response(200, mime_type, content)>>,
           lookups |-> <<filename>>] : mime_type \in get_mime_type(filename)}

\* the normalisation keeping the leading '/' of the target
normalize_path_no_strip(path) ==
    IF path = <<>> \/ path = <<47>> THEN STR_index_html
    ELSE path

\* the normalisation without the default document for "/" and ""
normalize_path_no_default(path) ==
    IF path = <<>> THEN path
    ELSE IF at(path, 0) = 47 THEN substr_from(path, 1)
    ELSE path

\* "Normalize path"
normalize_path(path) ==
    IF path = <<>> \/ path = <<47>> THEN STR_index_html
    ELSE IF at(path, 0) = 47 THEN substr_from(path, 1)
    ELSE path

\* the dispatch answering HEAD with the headers of GET and no body
handle_request_line_head_no_body(request_line, fs) ==
    LET parsed == parse_request_line(request_line)
        outcomes ==
            IF ~parsed.ok THEN {error_branch(400, STR_Bad_Request)}
            ELSE IF parsed.method # STR_GET /\ parsed.method # STR_HEAD
                 THEN {error_branch(405, STR_Method_Not_Allowed)}
            ELSE IF ~is_safe_path(parsed.path) THEN {error_branch(403, STR_Forbidden)}
            ELSE UNION {serve_file(fs, filename) :
                            filename \in url_decode(normalize_path(parsed.path))}
    IN  IF parsed.ok /\ parsed.method = STR_HEAD
        THEN {[o EXCEPT !.sent = <<[o.sent[1] EXCEPT !.body = <<>>]>>] :
                 o \in outcomes}
        ELSE outcomes

\* handle_request from the parse of the request line on
handle_request_line(request_line, fs) ==
    LET parsed == parse_request_line(request_line) IN
    IF ~parsed.ok THEN {error_branch(400, STR_Bad_Request)}
    ELSE IF parsed.method # STR_GET /\ parsed.method # STR_HEAD
         THEN {error_branch(405, STR_Method_Not_Allowed)}
    ELSE IF ~is_safe_path(parsed.path) THEN {error_branch(403, STR_Forbidden)}
    ELSE UNION {serve_file(fs, filename) :
                    filename \in url_decode(normalize_path(parsed.path))}

\* handle_request from "Parse first line" on, given the header block
handle_request_headers(request_headers, fs) ==
    LET line_end == find(request_headers, CRLF, 0) IN
    IF line_end = npos THEN {error_branch(400, STR_Bad_Request)}
    ELSE handle_request_line(substr(request_headers, 0, line_end), fs)

\* handle_request cutting the header block at the last "\r\n\r\n" of the
\* request (rfind) instead of the first
handle_request_last_terminator(request, fs) ==
    LET ends == {i \in 0 .. (Len(request) - 4) :
                    SubSeq(request, i + 1, i + 4) = CRLFCRLF}
    IN  IF ends = {} THEN {error_branch(400, STR_Bad_Request)}
        ELSE handle_request_headers(substr(request, 0, MaxOf(ends)), fs)

\* handle_request with the header terminator test forgotten
handle_request_no_terminator_test(request, fs) ==
    LET header_end == find(request, CRLFCRLF, 0) IN
    IF header_end = npos THEN handle_request_headers(request, fs)
    ELSE handle_request_headers(substr(request, 0, header_end), fs)

\* handle_request(client_socket, request) on the filesystem fs: the set of
\* its outcomes, each the responses sent and the filenames looked up
handle_request(request, fs) ==
    LET header_end == find(request, CRLFCRLF, 0) IN
    IF header_end = npos THEN {error_branch(400, STR_Bad_Request)}
    ELSE handle_request_headers(substr(request, 0, header_end), fs)

(* ------------------------------------------------------------------ *)
(* the arguments of the functions called on their own                  *)
(* ------------------------------------------------------------------ *)

\* the strings of at most n characters drawn from chars
StringsOver(chars, n) == UNION {[1 .. k -> chars] : k \in 0 .. n}

\* the longest request line built from LineChars
MaxLineLen == 4

\* 'G', ' ' and '/'
LineChars == {71, 32, 47}

Lines ==
    StringsOver(LineChars, MaxLineLen) \cup {RequestLine(STR_GET, T_index)}

\* the longest encoded string built from EncodedChars
MaxEncodedLen == 4

\* '%', '+', the hex digits '4', 'a', 'A' and 'z', which is none
EncodedChars == {37, 43, 52, 97, 65, 122}

\* with "%41" and "/a%20b.txt"
EncodedStrings ==
    StringsOver(EncodedChars, MaxEncodedLen)
    \cup {<<37, 52, 49>>, <<47, 97, 37, 50, 48, 98, 46, 116, 120, 116>>}

\* the longest part of a filename before its extension
MaxStemLen == 2

\* 'a' and '.'
StemChars == {97, 46}

\* s with each of its lower-case letters in either case
RECURSIVE CaseVariants(_)
CaseVariants(s) ==
    IF s = <<>> THEN {<<>>}
    ELSE LET cases == IF Head(s) \in 97 .. 122 THEN {Head(s), Head(s) - 32}
                      ELSE {Head(s)}
         IN  {<<c>> \o rest : c \in cases, rest \in CaseVariants(Tail(s))}

\* the keys of the table in every letter case, no extension, ".", ".xyz",
\* ".htmlx", ".ht", and two extensions holding a character above 127
Extensions ==
    UNION {CaseVariants(e[1]) : e \in mime_types}
    \cup {<<>>, <<46>>, <<46, 120, 121, 122>>, <<46, 88, 89, 90>>,
          <<46, 104, 116, 109, 108, 120>>, <<46, 104, 116>>,
          <<46, 201>>, <<46, 106, 211>>}

\* with "noext." and "noext"
Filenames ==
    {stem \o ext : stem \in StringsOver(StemChars, MaxStemLen),
                   ext \in Extensions}
    \cup {<<110, 111, 101, 120, 116, 46>>, <<110, 111, 101, 120, 116>>}

(* ------------------------------------------------------------------ *)
(* the server: main's accept loop and handle_client                    *)
(* ------------------------------------------------------------------ *)

\* The sends are taken to deliver all their bytes, and no allocation fails:
\* nothing in handle_client throws, so main's catch blocks are not entered.

VARIABLES
    pc,              \* where the single thread is: "accept", "recv", "received", "close"
    client_socket,   \* the result of the last accept: a connection, -1, or 0 before any
    open_sockets,    \* the accepted client sockets not yet closed
    accepted,        \* the number of connections accepted so far
    sent_len,        \* the number of bytes the client had sent when recv returned
    bytes_received,  \* handle_client's bytes_received
    buffer,          \* handle_client's buffer[0 .. bytes_received - 1]
    sent,            \* the responses sent on the connection client_socket
    lookups,         \* the filenames passed to read_file for this connection
    fs,              \* the filesystem
    reads,           \* per connection, the number of recv calls
    dispatches,      \* per connection, the number of handle_request calls
    closes,          \* per connection, the number of close calls
    fn_call,         \* a call of one function on its own: its name and argument
    fn_result        \* what that call returned

\* the variables of the accept loop and handle_client
server_vars == <<pc, client_socket, open_sockets, accepted, sent_len,
                 bytes_received, buffer, sent, lookups, fs, reads, dispatches,
                 closes>>

\* the variables of a function called on its own
fn_vars == <<fn_call, fn_result>>

vars == <<pc, client_socket, open_sockets, accepted, sent_len, bytes_received,
          buffer, sent, lookups, fs, reads, dispatches, closes, fn_call,
          fn_result>>

\* no function is called on its own while the server runs
NoCall == [fn |-> "none", arg |-> <<>>, done |-> FALSE]

Init ==
    /\ pc = "accept"
    /\ client_socket = 0
    /\ open_sockets = {}
    /\ accepted = 0
    /\ sent_len = 0
    /\ bytes_received = 0
    /\ buffer = <<>>
    /\ sent = <<>>
    /\ lookups = <<>>
    /\ fs \in FileSystems
    /\ reads = <<>>
    /\ dispatches = <<>>
    /\ closes = <<>>
    /\ fn_call = NoCall
    /\ fn_result = <<>>

\* accept returns a new connection; handle_client is entered with a zeroed buffer
Accept ==
    /\ pc = "accept"
    /\ accepted < MaxConns
    /\ accepted' = accepted + 1
    /\ client_socket' = accepted + 1
    /\ open_sockets' = open_sockets \cup {accepted + 1}
    /\ sent_len' = 0
    /\ bytes_received' = 0
    /\ buffer' = <<>>
    /\ sent' = <<>>
    /\ lookups' = <<>>
    /\ reads' = Append(reads, 0)
    /\ dispatches' = Append(dispatches, 0)
    /\ closes' = Append(closes, 0)
    /\ pc' = "recv"
    /\ UNCHANGED fs
    /\ UNCHANGED fn_vars

\* accept failing takes the loop to the shutdown path instead of continuing
AcceptFail_stops ==
    /\ pc = "accept"
    /\ client_socket' = -1
    /\ pc' = "shutdown"
    /\ UNCHANGED <<open_sockets, accepted, sent_len, bytes_received, buffer,
                   sent, lookups, fs, reads, dispatches, closes>>
    /\ UNCHANGED fn_vars

\* accept fails: "Accept failed" is logged and the loop continues
AcceptFail ==
    /\ pc = "accept"
    /\ client_socket' = -1
    /\ pc' = "accept"
    /\ UNCHANGED <<open_sockets, accepted, sent_len, bytes_received, buffer,
                   sent, lookups, fs, reads, dispatches, closes>>
    /\ UNCHANGED fn_vars

\* recv(client_socket, buffer, sizeof(buffer) - 1, 0) of the bytes wire
recv(wire) ==
    LET n == IF Len(wire) < BUFFER_SIZE - 1 THEN Len(wire) ELSE BUFFER_SIZE - 1
    IN  [bytes_received |-> n, buffer |-> SubSeq(wire, 1, n)]

\* the client has sent some bytes: recv returns as many as fit
RecvData ==
    /\ pc = "recv"
    /\ \E wire \in Requests :
          /\ sent_len' = Len(wire)
          /\ bytes_received' = recv(wire).bytes_received
          /\ buffer' = recv(wire).buffer
    /\ reads' = [reads EXCEPT ![client_socket] = @ + 1]
    /\ pc' = "received"
    /\ UNCHANGED <<client_socket, open_sockets, accepted, sent, lookups, fs,
                   dispatches, closes>>
    /\ UNCHANGED fn_vars

\* the client has closed without sending: recv returns 0
RecvZero ==
    /\ pc = "recv"
    /\ bytes_received' = 0
    /\ reads' = [reads EXCEPT ![client_socket] = @ + 1]
    /\ pc' = "received"
    /\ UNCHANGED <<client_socket, open_sockets, accepted, sent_len, buffer,
                   sent, lookups, fs, dispatches, closes>>
    /\ UNCHANGED fn_vars

\* recv fails, the 5 second receive timeout included: recv returns -1
RecvError ==
    /\ pc = "recv"
    /\ bytes_received' = -1
    /\ reads' = [reads EXCEPT ![client_socket] = @ + 1]
    /\ pc' = "received"
    /\ UNCHANGED <<client_socket, open_sockets, accepted, sent_len, buffer,
                   sent, lookups, fs, dispatches, closes>>
    /\ UNCHANGED fn_vars

\* the test of handle_client written bytes_received >= 0
has_request_or_zero(n) == n >= 0

\* whether handle_client calls handle_request
has_request(n) == n > 0

\* bytes_received > 0: the buffer is terminated, made a string and handled
HandleClientRequest ==
    /\ pc = "received"
    /\ has_request(bytes_received)
    /\ \E out \in handle_request(c_str(buffer), fs) :
          /\ sent' = sent \o out.sent
          /\ lookups' = lookups \o out.lookups
    /\ dispatches' = [dispatches EXCEPT ![client_socket] = @ + 1]
    /\ pc' = "close"
    /\ UNCHANGED <<client_socket, open_sockets, accepted, sent_len,
                   bytes_received, buffer, fs, reads, closes>>
    /\ UNCHANGED fn_vars

\* bytes_received <= 0: "Client disconnected" or "Receive error" is logged
HandleClientNoData ==
    /\ pc = "received"
    /\ ~has_request(bytes_received)
    /\ pc' = "close"
    /\ UNCHANGED <<client_socket, open_sockets, accepted, sent_len,
                   bytes_received, buffer, sent, lookups, fs, reads,
                   dispatches, closes>>
    /\ UNCHANGED fn_vars

\* handle_client closing the socket only in its bytes_received > 0 branch
CloseClient_only_after_request ==
    /\ pc = "close"
    /\ open_sockets' = IF bytes_received > 0 THEN open_sockets \ {client_socket}
                       ELSE open_sockets
    /\ closes' = IF bytes_received > 0
                 THEN [closes EXCEPT ![client_socket] = @ + 1]
                 ELSE closes
    /\ pc' = "accept"
    /\ UNCHANGED <<client_socket, accepted, sent_len, bytes_received, buffer,
                   sent, lookups, fs, reads, dispatches>>
    /\ UNCHANGED fn_vars

\* close(client_socket); handle_client returns to the accept loop
CloseClient ==
    /\ pc = "close"
    /\ open_sockets' = open_sockets \ {client_socket}
    /\ closes' = [closes EXCEPT ![client_socket] = @ + 1]
    /\ pc' = "accept"
    /\ UNCHANGED <<client_socket, accepted, sent_len, bytes_received, buffer,
                   sent, lookups, fs, reads, dispatches>>
    /\ UNCHANGED fn_vars

Next ==
    \/ Accept
    \/ AcceptFail
    \/ RecvData
    \/ RecvZero
    \/ RecvError
    \/ HandleClientRequest
    \/ HandleClientNoData
    \/ CloseClient

Spec == Init /\ [][Next]_vars

\* the thread goes from one place of the loop to the next
PcStep(from, to) == pc = from /\ pc' = to

\* The thread is sequential: recv returns (the receive timeout bounds it),
\* then handle_client runs on to its close and returns.  These are the steps
\* of RecvData, RecvZero and RecvError, of HandleClientRequest and
\* HandleClientNoData, and of CloseClient.  accept may block for ever, so no
\* step out of "accept" is required.
FairSpec ==
    /\ Init
    /\ [][Next]_vars
    /\ WF_pc(PcStep("recv", "received"))
    /\ WF_pc(PcStep("received", "close"))
    /\ WF_pc(PcStep("close", "accept"))

(* ------------------------------------------------------------------ *)
(* the functions called on their own                                   *)
(* ------------------------------------------------------------------ *)

\* a function is about to be called on one argument
FnCall(fn, arg) == [fn |-> fn, arg |-> arg, done |-> FALSE]

\* the server at rest, and one call of parse_request_line, url_decode or
\* get_mime_type about to be made
FnInit ==
    /\ pc = "accept"
    /\ client_socket = 0
    /\ open_sockets = {}
    /\ accepted = 0
    /\ sent_len = 0
    /\ bytes_received = 0
    /\ buffer = <<>>
    /\ sent = <<>>
    /\ lookups = <<>>
    /\ fs = [name \in FileNames |-> NoFile]
    /\ reads = <<>>
    /\ dispatches = <<>>
    /\ closes = <<>>
    /\ fn_call \in {FnCall("parse_request_line", line) : line \in Lines}
           \cup {FnCall("url_decode", encoded) : encoded \in EncodedStrings}
           \cup {FnCall("get_mime_type", filename) : filename \in Filenames}
    /\ fn_result = <<>>

\* parse_request_line(line, method, path), method and path empty before it
CallParseRequestLine ==
    /\ fn_call.fn = "parse_request_line"
    /\ ~fn_call.done
    /\ fn_result' = parse_request_line(fn_call.arg)
    /\ fn_call' = [fn_call EXCEPT !.done = TRUE]
    /\ UNCHANGED server_vars

\* url_decode(encoded)
CallUrlDecode ==
    /\ fn_call.fn = "url_decode"
    /\ ~fn_call.done
    /\ fn_result' \in url_decode(fn_call.arg)
    /\ fn_call' = [fn_call EXCEPT !.done = TRUE]
    /\ UNCHANGED server_vars

\* get_mime_type(filename)
CallGetMimeType ==
    /\ fn_call.fn = "get_mime_type"
    /\ ~fn_call.done
    /\ fn_result' \in get_mime_type(fn_call.arg)
    /\ fn_call' = [fn_call EXCEPT !.done = TRUE]
    /\ UNCHANGED server_vars

FnNext ==
    \/ CallParseRequestLine
    \/ CallUrlDecode
    \/ CallGetMimeType

FnSpec == FnInit /\ [][FnNext]_vars

\* the call of fn has returned
Returned(fn) == fn_call.fn = fn /\ fn_call.done

(* ------------------------------------------------------------------ *)
(* properties                                                          *)
(* ------------------------------------------------------------------ *)

\* the latest connection has been read with data and handle_request has returned
Answered == pc \in {"close", "accept"} /\ accepted > 0 /\ bytes_received > 0

\* the latest connection has been read without data and handle_client has gone on
Unanswered == pc \in {"close", "accept"} /\ accepted > 0 /\ bytes_received <= 0

\* s contains pat as a substring
Contains(s, pat) ==
    \E i \in 0 .. (Len(s) - Len(pat)) : SubSeq(s, i + 1, i + Len(pat)) = pat

\* the status code of the i-th response on the latest connection
StatusOf(i) == sent[i].headers.status_code

\* the parse of the request line of a request, failed when the request has no
\* header terminator or its header block has no line end
RequestLineOf(request) ==
    LET header_end == find(request, CRLFCRLF, 0) IN
    IF header_end = npos THEN ParseFailed
    ELSE LET request_headers == substr(request, 0, header_end)
             line_end == find(request_headers, CRLF, 0)
         IN  IF line_end = npos THEN ParseFailed
             ELSE parse_request_line(substr(request_headers, 0, line_end))

\* the request line parses into GET or HEAD and a target without "..", "//", "\"
PassesMethodAndSafety(request) ==
    LET parsed == RequestLineOf(request) IN
    /\ parsed.ok
    /\ parsed.method \in {STR_GET, STR_HEAD}
    /\ ~Contains(parsed.path, STR_dotdot)
    /\ ~Contains(parsed.path, STR_slashslash)
    /\ ~Contains(parsed.path, <<92>>)

\* C1: every filename passed to read_file is free of "..", of "//" and of
\* backslashes, whatever the target, percent-encoded characters included.
C1_ResolvedPathClean ==
    \A i \in 1 .. Len(lookups) :
        /\ ~Contains(lookups[i], STR_dotdot)
        /\ ~Contains(lookups[i], STR_slashslash)
        /\ ~Contains(lookups[i], <<92>>)

\* C2: a request line followed at once by the header terminator is dispatched
\* on its method and target: GET /../secret gives 403 with "403" in the body,
\* POST /x gives 405, GET /missing.txt with no such file gives 404.
C2_HeaderlessRequestDispatched ==
    Answered =>
        /\ buffer = RequestLine(STR_GET, T_dotdot) \o CRLFCRLF =>
              /\ Len(sent) = 1
              /\ StatusOf(1) = 403
              /\ Contains(sent[1].body, format_int(403))
        /\ buffer = RequestLine(M_POST, T_x) \o CRLFCRLF =>
              Len(sent) = 1 /\ StatusOf(1) = 405
        /\ buffer = RequestLine(STR_GET, T_missing) \o CRLFCRLF =>
              Len(sent) = 1 /\ StatusOf(1) = 404

\* C3: a connection whose read returned at least one byte gets exactly one
\* response, sent while the client socket is still open; nothing is sent
\* before handle_request runs.
C3_ExactlyOneResponse ==
    /\ Answered => Len(sent) = 1 /\ StatusOf(1) \in {200, 400, 403, 404, 405}
    /\ (pc = "close" /\ bytes_received > 0) => client_socket \in open_sockets
    /\ pc \in {"recv", "received"} => sent = <<>>

C3_Witness ==
    /\ pc = "accept"
    /\ Answered
    /\ Len(sent) = 1
    /\ StatusOf(1) = 404
    /\ closes[accepted] = 1

\* C4: the checks apply in the order 400, 405, 403, 404/200 and the first
\* failing check decides: without a parsed request line the status is 400;
\* with one, a method other than GET and HEAD gives 405 whatever the target,
\* a GET or HEAD of an encoded target holding "..", "//" or "\" gives 403 and
\* no file is looked up, and 404 or 200 come only from a GET or HEAD of a
\* safe target.
C4_CheckOrder ==
    Answered =>
        LET parsed == RequestLineOf(c_str(buffer))
            allowed == parsed.method \in {STR_GET, STR_HEAD}
            unsafe == \/ Contains(parsed.path, STR_dotdot)
                      \/ Contains(parsed.path, STR_slashslash)
                      \/ Contains(parsed.path, <<92>>)
        IN  /\ ~parsed.ok => StatusOf(1) = 400 /\ lookups = <<>>
            /\ (parsed.ok /\ ~allowed) => StatusOf(1) = 405 /\ lookups = <<>>
            /\ (parsed.ok /\ allowed /\ unsafe) =>
                   StatusOf(1) = 403 /\ lookups = <<>>
            /\ StatusOf(1) \in {200, 404} =>
                   parsed.ok /\ allowed /\ ~unsafe /\ Len(lookups) = 1

C4_Witness ==
    /\ Answered
    /\ RequestLineOf(c_str(buffer)) =
           [ok |-> TRUE, method |-> STR_GET, path |-> T_dotdot]
    /\ fs[F_secret] = [kind |-> "regular", data |-> D_bin]
    /\ StatusOf(1) = 403
    /\ lookups = <<>>

\* C5: a received buffer without "\r\n\r\n" is answered 400 with the HTML
\* error page, whatever else it holds, also when the terminator lies beyond
\* the BUFFER_SIZE - 1 bytes of the single read.
C5_NoTerminatorIs400 ==
    (Answered /\ ~Contains(buffer, CRLFCRLF)) =>
        /\ Len(sent) = 1
        /\ StatusOf(1) = 400
        /\ sent[1].headers.content_type = STR_text_html
        /\ Contains(sent[1].body, PAGE_head \o format_int(400))

C5_Witness ==
    /\ Answered
    /\ sent_len > BUFFER_SIZE - 1
    /\ bytes_received = BUFFER_SIZE - 1
    /\ ~Contains(buffer, CRLFCRLF)
    /\ RequestLineOf(buffer \o CRLFCRLF).method = STR_GET
    /\ StatusOf(1) = 400

\* C6: every response has status 200, 400, 403, 404 or 405; 500 is never
\* sent and the status text is never "Unknown".
C6_StatusCodes ==
    \A i \in 1 .. Len(sent) :
        /\ StatusOf(i) \in {200, 400, 403, 404, 405}
        /\ StatusOf(i) # 500
        /\ sent[i].headers.status_text # STR_Unknown

C6_Witness ==
    /\ Answered
    /\ Len(sent) = 1
    /\ StatusOf(1) = 405
    /\ sent[1].headers.status_text = STR_Method_Not_Allowed

\* C7: Content-Length equals the number of body bytes sent; a 200 response
\* for a file of N bytes has Content-Length N and the N bytes of the file as
\* its body, for GET and for HEAD.
C7_ContentLength ==
    \A i \in 1 .. Len(sent) :
        /\ sent[i].headers.content_length = Len(sent[i].body)
        /\ StatusOf(i) = 200 =>
              /\ Len(lookups) = 1
              /\ sent[i].body = file_at(fs, c_str(lookups[1])).data
              /\ sent[i].headers.content_length =
                     Len(file_at(fs, c_str(lookups[1])).data)

C7_Witness ==
    /\ Answered
    /\ RequestLineOf(c_str(buffer)).method = STR_HEAD
    /\ StatusOf(1) = 200
    /\ sent[1].headers.content_length = 2
    /\ sent[1].body = D_bin

\* C8: for a request that passes the method and safety checks, the status is
\* 404 exactly when the file under the resolved path is missing, unreadable
\* or of length zero, and 200 otherwise; a 200 response has Content-Length
\* of at least 1.
C8_NotFoundIffEmpty ==
    (Answered /\ PassesMethodAndSafety(c_str(buffer))) =>
        /\ Len(lookups) = 1
        /\ Len(sent) = 1
        /\ LET file == file_at(fs, c_str(lookups[1]))
               empty == \/ file.kind \in {"missing", "noperm", "ioerror"}
                        \/ Len(file.data) = 0
           IN  /\ StatusOf(1) = 404 <=> empty
               /\ StatusOf(1) = 200 <=> ~empty
        /\ StatusOf(1) = 200 => sent[1].headers.content_length >= 1

C8_Witness ==
    /\ Answered
    /\ PassesMethodAndSafety(c_str(buffer))
    /\ lookups = <<F_a_txt>>
    /\ fs[F_a_txt] = [kind |-> "regular", data |-> <<>>]
    /\ StatusOf(1) = 404

\* C9: when the read returns zero bytes or fails, handle_request is not
\* called, nothing is sent on the connection, and the socket is closed.
C9_NoDataNoResponse ==
    Unanswered =>
        /\ sent = <<>>
        /\ lookups = <<>>
        /\ dispatches[accepted] = 0
        /\ pc = "accept" => (accepted \notin open_sockets /\ closes[accepted] = 1)

C9_Witness ==
    /\ pc = "accept"
    /\ accepted > 0
    /\ bytes_received = 0
    /\ reads[accepted] = 1
    /\ closes[accepted] = 1
    /\ sent = <<>>

\* C10: connections are handled one at a time: at most one client socket is
\* open, none while the loop is at accept; each accepted socket is read once,
\* dispatched at most once and closed once before the next accept.
C10_OneAtATime ==
    /\ Cardinality(open_sockets) <= 1
    /\ pc = "accept" => open_sockets = {}
    /\ pc # "accept" => open_sockets = {accepted} /\ client_socket = accepted
    /\ \A s \in 1 .. accepted :
          /\ reads[s] <= 1 /\ dispatches[s] <= 1 /\ closes[s] <= 1
          /\ dispatches[s] <= reads[s]
          /\ s \in open_sockets <=> closes[s] = 0
          /\ (s < accepted \/ pc = "accept") => reads[s] = 1 /\ closes[s] = 1
          /\ pc \in {"received", "close"} => reads[accepted] = 1

C10_Witness ==
    /\ pc = "recv"
    /\ accepted = 2
    /\ open_sockets = {2}
    /\ reads = <<1, 0>>
    /\ closes = <<1, 0>>

\* C11: the server keeps serving: the loop never leaves for the shutdown
\* path, a failed accept leaves it waiting in accept, and an accepted
\* connection, whatever is read on it, is followed by a wait in accept.
C11_KeepsServing ==
    /\ [](pc \in {"accept", "recv", "received", "close"})
    /\ [][AcceptFail => pc' = "accept"]_vars
    /\ (pc # "accept") ~> (pc = "accept")

C11_Witness ==
    /\ pc = "accept"
    /\ client_socket = -1
    /\ accepted > 0
    /\ bytes_received > 0
    /\ closes[accepted] = 1

\* "text/html; charset=utf-8"
TEXT_HTML_UTF8 ==
    <<116, 101, 120, 116, 47, 104, 116, 109, 108, 59, 32, 99, 104, 97, 114,
      115, 101, 116, 61, 117, 116, 102, 45, 56>>

\* C12: a GET or HEAD of the target "/" or of an empty target, with a header
\* line and a terminator, looks up index.html and, when that file is readable
\* and not empty, is answered 200 with Content-Type text/html; charset=utf-8
\* and the file as body, and the connection is closed; for any other safe
\* target the file looked up is the target without its one leading '/' (as it
\* is when it has none), decoded.
C12_DefaultDocument ==
    (Answered /\ PassesMethodAndSafety(c_str(buffer))) =>
        LET path == RequestLineOf(c_str(buffer)).path
            index == file_at(fs, STR_index_html)
        IN  /\ Len(lookups) = 1
            /\ Len(sent) = 1
            /\ path \in {<<>>, <<47>>} =>
                  /\ lookups[1] = STR_index_html
                  /\ (index.kind = "regular" /\ index.data # <<>>) =>
                        /\ StatusOf(1) = 200
                        /\ sent[1].headers.content_type = TEXT_HTML_UTF8
                        /\ sent[1].body = index.data
                  /\ pc = "accept" => accepted \notin open_sockets
            /\ path \notin {<<>>, <<47>>} =>
                  lookups[1] \in url_decode(IF path[1] = 47 THEN Tail(path)
                                            ELSE path)

C12_Witness ==
    /\ pc = "accept"
    /\ Answered
    /\ buffer = RequestLine(STR_GET, T_root) \o CRLF \o H_host \o CRLFCRLF
    /\ StatusOf(1) = 200
    /\ sent[1].headers.content_type = TEXT_HTML_UTF8
    /\ sent[1].body = D_page
    /\ accepted \notin open_sockets

\* what may follow the header terminator in a received buffer
BodyVariants == {<<>>, B_body, <<120>> \o CRLFCRLF}

\* C13: the response depends only on the header block: a buffer that agrees
\* with the received one up to and including the first "\r\n\r\n" and has
\* other bytes after it gets, on the same filesystem, the same status,
\* Content-Type, Content-Length and body.  Before the dispatch the two
\* buffers have the same possible outcomes; after it, when the decoding of
\* the target is determined, the response sent is the one outcome of each.
C13_BodyIgnored ==
    LET head == substr(buffer, 0, find(buffer, CRLFCRLF, 0) + 4)
        others == {head \o body : body \in BodyVariants}
        received == {other \in others : Len(other) <= BUFFER_SIZE - 1}
    IN  /\ (pc = "received" /\ bytes_received > 0 /\ Contains(buffer, CRLFCRLF)) =>
              \A other \in received :
                  handle_request(c_str(other), fs)
                      = handle_request(c_str(buffer), fs)
        /\ (pc = "close" /\ Answered /\ Contains(buffer, CRLFCRLF)
              /\ Cardinality(url_decode(RequestLineOf(c_str(buffer)).path)) = 1) =>
              \A other \in received :
                  handle_request(c_str(other), fs)
                      = {[sent |-> sent, lookups |-> lookups]}

C13_Witness ==
    /\ pc = "close"
    /\ Answered
    /\ buffer = RequestLine(STR_GET, T_a_txt) \o CRLF \o H_host \o CRLFCRLF
                    \o B_body
    /\ StatusOf(1) = 200
    /\ sent[1].body = D_hello

\* "</title>"
TITLE_END == <<60, 47, 116, 105, 116, 108, 101, 62>>

\* the status texts of the four error codes
ErrorTexts ==
    [code \in {400, 403, 404, 405} |->
        IF code = 400 THEN STR_Bad_Request
        ELSE IF code = 403 THEN STR_Forbidden
        ELSE IF code = 404 THEN STR_Not_Found
        ELSE STR_Method_Not_Allowed]

\* C14: a response with status 400, 403, 404 or 405 has Content-Type
\* text/html and the synthesized page as body, titled "<code> <message>"
\* with the code of the status line and the status text of that code.
C14_ErrorPage ==
    \A i \in 1 .. Len(sent) :
        StatusOf(i) \in {400, 403, 404, 405} =>
            LET code == StatusOf(i)
                title == PAGE_head \o format_int(code) \o <<32>>
                             \o ErrorTexts[code] \o TITLE_END
            IN  /\ sent[i].headers.content_type = STR_text_html
                /\ sent[i].headers.status_text = ErrorTexts[code]
                /\ SubSeq(sent[i].body, 1, Len(title)) = title
                /\ sent[i].body = generate_error_page(code, ErrorTexts[code])

C14_Witness ==
    /\ Answered
    /\ StatusOf(1) = 403
    /\ Contains(sent[1].body, format_int(403) \o <<32>> \o STR_Forbidden
                                  \o TITLE_END)
    /\ ~Contains(sent[1].body, format_int(400))

\* the request has a header terminator and a line end before it
HasRequestLine(request) ==
    /\ Contains(request, CRLF)
    /\ Contains(request, CRLFCRLF)
    /\ find(request, CRLF, 0) < find(request, CRLFCRLF, 0)

\* the bytes of the request before its first line end
FirstLine(request) == substr(request, 0, find(request, CRLF, 0))

\* the number of space characters of a line
Spaces(line) == Cardinality({i \in 1 .. Len(line) : line[i] = 32})

\* line begins with prefix
StartsWith(line, prefix) ==
    Len(line) >= Len(prefix) /\ SubSeq(line, 1, Len(prefix)) = prefix

\* C15 as stated: when the request line parses, method and target are both
\* non-empty; a line starting with a space, or with two consecutive spaces
\* after the method, does not parse and is answered 400.
C15_ParsedFieldsNonEmpty ==
    (Answered /\ HasRequestLine(c_str(buffer))) =>
        LET line == FirstLine(c_str(buffer))
            parsed == parse_request_line(line)
        IN  /\ parsed.ok => parsed.method # <<>> /\ parsed.path # <<>>
            /\ (StartsWith(line, <<32>>)
                  \/ StartsWith(line, STR_GET \o <<32, 32>>)
                  \/ StartsWith(line, STR_HEAD \o <<32, 32>>)) =>
                    StatusOf(1) = 400

\* C15 (amended): a request line with fewer than two spaces is answered 400
\* and one with two or more is not; the method or the target of a line that
\* parses may be empty: a line starting with a space (and holding a second
\* one) has the empty method and is answered 405, a GET or HEAD followed by
\* two spaces has the empty target and is served index.html (200 or 404).
C15_EmptyFieldsParse ==
    (Answered /\ HasRequestLine(c_str(buffer))) =>
        LET line == FirstLine(c_str(buffer)) IN
        /\ Len(sent) = 1
        /\ Spaces(line) < 2 <=> StatusOf(1) = 400
        /\ (Spaces(line) >= 2 /\ StartsWith(line, <<32>>)) =>
              StatusOf(1) = 405 /\ lookups = <<>>
        /\ (StartsWith(line, STR_GET \o <<32, 32>>)
              \/ StartsWith(line, STR_HEAD \o <<32, 32>>)) =>
                /\ lookups = <<STR_index_html>>
                /\ StatusOf(1) \in {200, 404}

C15_Witness ==
    /\ Answered
    /\ buffer = RequestLine(<<>>, T_root) \o CRLF \o H_host \o CRLFCRLF
    /\ StatusOf(1) = 405

\* C16: the filename passed to read_file is never the empty string: every
\* request that passes the method and safety tests reaches one lookup, of
\* index.html for the empty target and for "/", and of at least one
\* character for every other target.
C16_ResolvedPathNonEmpty ==
    /\ \A i \in 1 .. Len(lookups) : Len(lookups[i]) >= 1
    /\ (Answered /\ PassesMethodAndSafety(c_str(buffer))) =>
          /\ Len(lookups) = 1
          /\ RequestLineOf(c_str(buffer)).path \in {<<>>, <<47>>} =>
                lookups[1] = STR_index_html

C16_Witness ==
    /\ Answered
    /\ buffer = RequestLine(STR_HEAD, <<>>) \o CRLF \o H_host \o CRLFCRLF
    /\ lookups = <<STR_index_html>>
    /\ StatusOf(1) = 200

\* the positions (from 1) of the space characters of a line
SpacesAt(line) == {i \in 1 .. Len(line) : line[i] = 32}

\* C17: parse_request_line succeeds exactly on the lines with at least two
\* spaces; the method is then the text before the first space and the path
\* the text strictly between the first and the second, what follows the
\* second being dropped; on a line with no or one space it fails and method
\* and path stay as they were, empty.
C17_ParseRequestLine ==
    Returned("parse_request_line") =>
        LET line == fn_call.arg
            spaces == SpacesAt(line)
        IN  /\ fn_result.ok <=> Cardinality(spaces) >= 2
            /\ Cardinality(spaces) >= 2 =>
                  LET first == MinOf(spaces)
                      second == MinOf(spaces \ {first})
                  IN  /\ fn_result.method = SubSeq(line, 1, first - 1)
                      /\ fn_result.path = SubSeq(line, first + 1, second - 1)
                      /\ fn_result.method \o <<32>> \o fn_result.path \o <<32>>
                            = SubSeq(line, 1, second)
            /\ Cardinality(spaces) < 2 =>
                  fn_result.method = <<>> /\ fn_result.path = <<>>

C17_Witness ==
    /\ Returned("parse_request_line")
    /\ fn_call.arg = RequestLine(STR_GET, T_index)
    /\ fn_result = [ok |-> TRUE, method |-> STR_GET, path |-> T_index]

\* "0123456789abcdef" and "0123456789ABCDEF"
HEX_LOWER == <<48, 49, 50, 51, 52, 53, 54, 55, 56, 57, 97, 98, 99, 100, 101, 102>>
HEX_UPPER == <<48, 49, 50, 51, 52, 53, 54, 55, 56, 57, 65, 66, 67, 68, 69, 70>>

\* c is a hex digit, and its value
RefIsHex(c) == \E v \in 1 .. 16 : HEX_LOWER[v] = c \/ HEX_UPPER[v] = c
RefHexValue(c) == (CHOOSE v \in 1 .. 16 : HEX_LOWER[v] = c \/ HEX_UPPER[v] = c) - 1

\* the reference decoder: one pass from the left
RECURSIVE RefDecode(_)
RefDecode(s) ==
    IF s = <<>> THEN <<>>
    ELSE IF s[1] = 37 /\ Len(s) >= 3
         THEN <<16 * RefHexValue(s[2]) + RefHexValue(s[3])>>
                  \o RefDecode(SubSeq(s, 4, Len(s)))
    ELSE IF s[1] = 43 THEN <<32>> \o RefDecode(Tail(s))
    ELSE <<s[1]>> \o RefDecode(Tail(s))

\* every '%' is followed by two hex digits or is one of the last two characters
WellFormed(s) ==
    \A i \in 1 .. Len(s) :
        s[i] = 37 =>
            \/ i >= Len(s) - 1
            \/ RefIsHex(s[i + 1]) /\ RefIsHex(s[i + 2])

\* C18: on a string whose '%' are each followed by two hex digits or among
\* its last two characters, url_decode returns what the reference decoder
\* returns: %XY gives the byte of value XY, '+' gives a space, a '%' with
\* fewer than two characters after it stays, followed by what its trailing
\* character gives, and any other character is copied; a string without '%'
\* and '+' comes back unchanged, and one without '%' keeps its length.
C18_UrlDecodeReference ==
    (Returned("url_decode") /\ WellFormed(fn_call.arg)) =>
        LET encoded == fn_call.arg
            n == Len(encoded)
        IN  /\ fn_result = RefDecode(encoded)
            /\ url_decode(encoded) = {RefDecode(encoded)}
            /\ (\A i \in 1 .. n : encoded[i] \notin {37, 43}) =>
                  fn_result = encoded
            /\ (\A i \in 1 .. n : encoded[i] # 37) =>
                  fn_result = [i \in 1 .. n |->
                                  IF encoded[i] = 43 THEN 32 ELSE encoded[i]]
            /\ (n >= 1 /\ encoded[n] = 37) => fn_result[Len(fn_result)] = 37
            /\ (n >= 2 /\ encoded[n - 1] = 37 /\ RefIsHex(encoded[n])) =>
                  SubSeq(fn_result, Len(fn_result) - 1, Len(fn_result))
                      = <<37, encoded[n]>>

C18_Witness ==
    /\ Returned("url_decode")
    /\ fn_call.arg = <<52, 37, 52, 65>>
    /\ fn_result = <<52, 74>>

\* s with its upper-case ASCII letters lowered
RefLower(s) ==
    [i \in 1 .. Len(s) |-> IF s[i] \in 65 .. 90 THEN s[i] + 32 ELSE s[i]]

\* C19: get_mime_type returns the table's type for the lower-cased text from
\* the last '.' of the filename on, so the same type for every letter case
\* of that extension, and application/octet-stream for a filename without
\* '.', for one ending in '.', and for an extension that is none of the
\* twelve keys of the table.
C19_MimeByLowerExtension ==
    Returned("get_mime_type") =>
        LET filename == fn_call.arg
            dots == {i \in 1 .. Len(filename) : filename[i] = 46}
        IN  /\ Cardinality(mime_types) = 12
            /\ dots = {} => fn_result = STR_octet_stream
            /\ dots # {} =>
                  LET last == MaxOf(dots)
                      stem == SubSeq(filename, 1, last - 1)
                      ext == RefLower(SubSeq(filename, last, Len(filename)))
                      entries == {e \in mime_types : e[1] = ext}
                  IN  /\ entries = {} => fn_result = STR_octet_stream
                      /\ last = Len(filename) => fn_result = STR_octet_stream
                      /\ \A e \in entries : fn_result = e[2]
                      /\ \A other \in CaseVariants(ext) :
                            get_mime_type(stem \o other) = {fn_result}

C19_Witness ==
    /\ Returned("get_mime_type")
    /\ fn_call.arg = <<97, 46, 72, 84, 77, 76>>
    /\ fn_result = TEXT_HTML_UTF8
    /\ get_mime_type(<<97, 46, 104, 116, 109, 108>>) = {TEXT_HTML_UTF8}

\* the request with its method changed from GET to HEAD or from HEAD to GET
OtherMethod(request) ==
    IF StartsWith(request, STR_GET \o <<32>>)
    THEN STR_HEAD \o SubSeq(request, 4, Len(request))
    ELSE STR_GET \o SubSeq(request, 5, Len(request))

\* the request begins with "GET " or "HEAD ", and the same request with the
\* other method fits the single read too
HasGetHeadTwin(request) ==
    /\ StartsWith(request, STR_GET \o <<32>>)
          \/ StartsWith(request, STR_HEAD \o <<32>>)
    /\ Len(OtherMethod(request)) <= BUFFER_SIZE - 1

\* C20: HEAD is dispatched exactly like GET: a received request and the same
\* request with the other of the two methods get, on the same filesystem,
\* the same responses (status, headers and body bytes) and the same lookups,
\* so that a 200 answer to HEAD has the whole file as its body.
C20_HeadLikeGet ==
    /\ (pc = "received" /\ bytes_received > 0 /\ HasGetHeadTwin(c_str(buffer))) =>
          handle_request(OtherMethod(c_str(buffer)), fs)
              = handle_request(c_str(buffer), fs)
    /\ (pc = "close" /\ Answered /\ HasGetHeadTwin(c_str(buffer))
          /\ Cardinality(url_decode(RequestLineOf(c_str(buffer)).path)) = 1) =>
          handle_request(OtherMethod(c_str(buffer)), fs)
              = {[sent |-> sent, lookups |-> lookups]}
    /\ (Answered /\ StartsWith(c_str(buffer), STR_HEAD \o <<32>>)
          /\ Len(sent) = 1 /\ StatusOf(1) = 200) =>
          /\ Len(lookups) = 1
          /\ sent[1].body = file_at(fs, c_str(lookups[1])).data
          /\ sent[1].body # <<>>
          /\ sent[1].headers.content_length = Len(sent[1].body)

C20_Witness ==
    /\ pc = "close"
    /\ Answered
    /\ buffer = RequestLine(STR_HEAD, T_a_txt) \o CRLF \o H_host \o CRLFCRLF
    /\ StatusOf(1) = 200
    /\ sent[1].body = D_hello
    /\ [sent |-> sent, lookups |-> lookups]
          \in handle_request(RequestLine(STR_GET, T_a_txt) \o CRLF \o H_host
                                 \o CRLFCRLF, fs)

=============================================================================
